---- MODULE Spec2Model ----
(***************************************************************************)
(* A model of ps-ds-monitor.py: the SystemMonitor process collector        *)
(* (get_process_status and its four backends), the system collector        *)
(* (get_detailed_system_status and its fallbacks) and the paging loop of   *)
(* display_process_status.                                                 *)
(*                                                                         *)
(* Numbers with one decimal (percentages, megabytes) are held in tenths,   *)
(* numbers with two decimals (gigabytes, unrounded percentages) in         *)
(* hundredths.  A piece of text read from a command or a file is a token:  *)
(* its kind says which Python conversions accept it.                       *)
(***************************************************************************)
EXTENDS Integers, Sequences, FiniteSets, TLC

\* ------------------------------------------------------------------ bounds
\* Longest raw output (rows, directory entries, processes) of one collection.
MaxRows == 3
\* Largest page size tried besides the default one.
MaxPageSize == 3
\* The run of `next` inputs after a `first` is counted up to this value.
MaxRun == 6
\* Number of records of the large paging scenario.
ScenarioCount == 120
\* Longest /proc/meminfo, and longest wmic output, in lines.
MaxLines == 2

\* The default of display_process_status's page_size parameter.
DefaultPageSize == 50

\* ------------------------------------------------------------------ tokens
\* Text pieces.  kind "int": decimal digits (int() and float() accept it);
\* "float": digits with a decimal point, n in tenths (only float() accepts);
\* "kb": tasklist's memory column such as "10,240 K", n the kilobytes;
\* "paren": a name in parentheses as in /proc/<pid>/stat; "text": anything else.
I(n) == [kind |-> "int", n |-> n, s |-> ToString(n)]
F(n) == [kind |-> "float", n |-> n, s |-> "f"]
KB(n) == [kind |-> "kb", n |-> n, s |-> "K"]
P(s) == [kind |-> "paren", n |-> 0, s |-> s]
T(s) == [kind |-> "text", n |-> 0, s |-> s]

\* ------------------------------------------------------------------ exceptions
\* The classes an exception is an instance of (Python's and psutil's hierarchy),
\* as far as the except clauses of the program tell them apart.
Ancestors(e) ==
    CASE e = "FileNotFoundError" -> {"FileNotFoundError", "OSError", "Exception"}
      [] e = "PermissionError" -> {"PermissionError", "OSError", "Exception"}
      [] e = "OSError" -> {"OSError", "Exception"}
      [] e = "CalledProcessError" -> {"CalledProcessError", "Exception"}
      [] e = "ValueError" -> {"ValueError", "Exception"}
      [] e = "IndexError" -> {"IndexError", "Exception"}
      [] e = "TypeError" -> {"TypeError", "Exception"}
      [] e = "NoSuchProcess" -> {"NoSuchProcess", "Exception"}
      [] e = "ZombieProcess" -> {"ZombieProcess", "NoSuchProcess", "Exception"}
      [] e = "AccessDenied" -> {"AccessDenied", "Exception"}
      [] OTHER -> {}

\* `except classes:` catches e ("none" is no exception).
Catches(classes, e) == e # "none" /\ Ancestors(e) \cap classes # {}

\* int(t) and float(t) raise ValueError on text they cannot convert.
IntRaises(t) == IF t.kind = "int" THEN "none" ELSE "ValueError"
IntOf(t) == t.n
FloatRaises(t) == IF t.kind \in {"int", "float"} THEN "none" ELSE "ValueError"
\* float(t), in tenths.
FloatOf(t) == IF t.kind = "int" THEN 10 * t.n ELSE t.n

\* round(a / b) to the nearest integer, ties to even (Python's round()).
RoundDiv(a, b) ==
    LET q == a \div b
        r == a % b
    IN  IF 2 * r > b THEN q + 1
        ELSE IF 2 * r < b THEN q
        ELSE IF q % 2 = 0 THEN q ELSE q + 1

\* dict.get(k, default)
Get(d, k, default) == IF k \in DOMAIN d THEN d[k] ELSE default

Min(a, b) == IF a < b THEN a ELSE b

\* A for loop is left at the first row whose body raises an exception that no
\* try inside the loop catches: the first of `leaving` (row numbers), or 0.
LoopLeftAt(leaving) ==
    IF leaving = {} THEN 0 ELSE CHOOSE i \in leaving : \A j \in leaving : i <= j

\* The rows such a loop runs its whole body for.
RowsDone(rows, leaving) ==
    SubSeq(rows, 1, IF leaving = {} THEN Len(rows) ELSE LoopLeftAt(leaving) - 1)

\* ------------------------------------------------------------------ backend selection
\* Mutant: the host OS is looked at before the psutil flag.
SelectBackend_OsFirst(psutil, sys, proc_exists) ==
    IF sys = "windows" THEN "windows"
    ELSE IF psutil THEN "psutil"
    ELSE IF sys = "linux" /\ proc_exists THEN "proc"
    ELSE "ps"

\* get_process_status, _get_processes_fallback and _get_processes_unix choose
\* the backend from PSUTIL_AVAILABLE, self.system and os.path.exists('/proc').
SelectBackend(psutil, sys, proc_exists) ==
    IF psutil THEN "psutil"
    ELSE IF sys = "windows" THEN "windows"
    ELSE IF sys = "linux" /\ proc_exists THEN "proc"
    ELSE "ps"

\* ------------------------------------------------------------------ tasklist backend
\* parts[4].replace(',', '').replace(' K', '')
StripKB(t) == IF t.kind = "kb" THEN I(t.n) ELSE t

\* The dict appended for one tasklist row of at least five parts.
WindowsRecord(parts) ==
    LET memory_str == StripKB(parts[5])
    IN  [pid |-> IntOf(parts[2]),
         name |-> parts[1].s,
         cpu_percent |-> 0,
         memory_percent |-> 0,
         memory_mb |-> IF FloatRaises(memory_str) = "none"
                       THEN RoundDiv(FloatOf(memory_str), 1024)
                       ELSE 0,
         status |-> parts[4].s,
         username |-> "unknown"]

\* The for loop over the rows: rows of fewer than five parts are passed over; a
\* ValueError of int(parts[1]) is caught by no try inside the loop, so it leaves
\* the loop for the except clauses around it, which keep the rows appended so far.
WindowsLoop(lines) ==
    LET leaving == {i \in DOMAIN lines :
                       Len(lines[i]) >= 5 /\ IntRaises(lines[i][2]) # "none"}
        kept == SelectSeq(RowsDone(lines, leaving), LAMBDA parts : Len(parts) >= 5)
    IN  [i \in DOMAIN kept |-> WindowsRecord(kept[i])]

\* _get_processes_windows: env.outcome is what subprocess.run(check=True) did,
\* env.rows the lines of its output after the header.
GetProcessesWindows(env) ==
    IF env.outcome # "none"
    THEN [ret |-> <<>>,
          raised |-> IF Catches({"CalledProcessError", "Exception"}, env.outcome)
                     THEN "none" ELSE env.outcome]
    ELSE [ret |-> WindowsLoop(env.rows), raised |-> "none"]

\* ------------------------------------------------------------------ ps backend
\* The dict appended for one ps row (line.split(None, 5)) of at least five parts.
PsRecord(parts) ==
    [pid |-> IntOf(parts[1]),
     name |-> parts[2].s,
     cpu_percent |-> FloatOf(parts[3]),
     memory_percent |-> FloatOf(parts[4]),
     status |-> parts[5].s,
     username |-> IF Len(parts) > 5 THEN parts[6].s ELSE "unknown"]

\* The first exception building the dict of a row raises, or "none".
PsRowRaises(parts) ==
    IF IntRaises(parts[1]) # "none" THEN IntRaises(parts[1])
    ELSE IF FloatRaises(parts[3]) # "none" THEN FloatRaises(parts[3])
    ELSE FloatRaises(parts[4])

\* The for loop: the try inside it catches ValueError and goes on to the next row.
PsLoop(lines) ==
    LET leaving == {i \in DOMAIN lines :
                       /\ Len(lines[i]) >= 5
                       /\ PsRowRaises(lines[i]) # "none"
                       /\ ~Catches({"ValueError"}, PsRowRaises(lines[i]))}
        kept == SelectSeq(RowsDone(lines, leaving),
                          LAMBDA parts : Len(parts) >= 5 /\ PsRowRaises(parts) = "none")
    IN  [i \in DOMAIN kept |-> PsRecord(kept[i])]

\* Mutant: only `except subprocess.CalledProcessError`, without the
\* `except Exception` after it.
GetProcessesPs_NoCatchAll(env) ==
    IF env.outcome # "none"
    THEN [ret |-> <<>>,
          raised |-> IF Catches({"CalledProcessError"}, env.outcome)
                     THEN "none" ELSE env.outcome]
    ELSE [ret |-> PsLoop(env.rows), raised |-> "none"]

\* _get_processes_ps: the list is returned in the order of the rows.
GetProcessesPs(env) ==
    IF env.outcome # "none"
    THEN [ret |-> <<>>,
          raised |-> IF Catches({"CalledProcessError", "Exception"}, env.outcome)
                     THEN "none" ELSE env.outcome]
    ELSE [ret |-> PsLoop(env.rows), raised |-> "none"]

\* ------------------------------------------------------------------ /proc backend
\* What reading one numeric /proc entry raises first, or "none".
ProcEntryRaises(e) ==
    IF ~e.stat_exists THEN "none"
    ELSE IF e.stat_open # "none" THEN e.stat_open
    ELSE IF Len(e.stat_data) < 3 THEN "IndexError"
    ELSE IF ~e.status_exists THEN "none"
    ELSE IF e.status_open # "none" THEN e.status_open
    ELSE IF ~e.has_vmrss THEN "none"
    ELSE IF e.vmrss = <<>> THEN "IndexError"
    ELSE IntRaises(e.vmrss[1])

\* stat_data[1].strip('()'): a "paren" token holds the name inside the parentheses.
StripParens(t) == t.s

\* The dict appended for one entry whose stat file exists.
ProcRecord(e) ==
    [pid |-> IntOf(e.dir),
     name |-> StripParens(e.stat_data[2]),
     cpu_percent |-> 0,
     memory_percent |-> 0,
     memory_kb |-> IF e.status_exists /\ e.has_vmrss THEN IntOf(e.vmrss[1]) ELSE 0,
     status |-> e.stat_data[3].s,
     username |-> "unknown"]

\* The for loop over os.listdir('/proc'): the list, and the exception that left
\* the loop.  Non-numeric names are passed over; the try inside the loop catches
\* OSError, ValueError and IndexError and goes on to the next entry.
ProcLoop(entries) ==
    LET leaving == {i \in DOMAIN entries :
                       /\ entries[i].dir.kind = "int"
                       /\ ProcEntryRaises(entries[i]) # "none"
                       /\ ~Catches({"OSError", "ValueError", "IndexError"},
                                   ProcEntryRaises(entries[i]))}
        kept == SelectSeq(RowsDone(entries, leaving),
                          LAMBDA e : /\ e.dir.kind = "int"
                                     /\ ProcEntryRaises(e) = "none"
                                     /\ e.stat_exists)
        left == LoopLeftAt(leaving)
    IN  [ret |-> [i \in DOMAIN kept |-> ProcRecord(kept[i])],
         raised |-> IF left = 0 THEN "none" ELSE ProcEntryRaises(entries[left])]

\* _get_processes_proc: env.outcome is what os.listdir raised, env.rows its entries.
GetProcessesProc(env) ==
    IF env.outcome # "none"
    THEN [ret |-> <<>>,
          raised |-> IF Catches({"OSError"}, env.outcome) THEN "none" ELSE env.outcome]
    ELSE LET r == ProcLoop(env.rows)
         IN  [ret |-> r.ret,
              raised |-> IF Catches({"OSError"}, r.raised) THEN "none" ELSE r.raised]

\* ------------------------------------------------------------------ psutil backend
\* round(x, 1) of a value held in hundredths, in tenths.
Round1(hundredths) == RoundDiv(hundredths, 10)

\* proc.info['cpu_percent'] or proc.cpu_percent(): the call is made when the
\* attribute is None or 0.0 (both held as 0); it.cpu_call is what the call does.
PsutilCpu(it) == IF it.cpu_info # 0 THEN it.cpu_info ELSE it.cpu_call.v

\* What building the dict of one process raises first, or "none".  A cmdline of
\* None (psutil's value for an attribute it was denied) makes ' '.join raise.
PsutilItemRaises(it) ==
    IF it.cpu_info = 0 /\ it.cpu_call.exc # "none" THEN it.cpu_call.exc
    ELSE IF it.cmdline.none THEN "TypeError"
    ELSE "none"

\* The dict appended for one process; the joined command line is held as the
\* sequence of its words.
PsutilRecord(it) ==
    [pid |-> it.pid,
     name |-> IF it.name # "" THEN it.name ELSE "Unknown",
     cpu_percent |-> IF PsutilCpu(it) # 0 THEN Round1(PsutilCpu(it)) ELSE 0,
     memory_percent |-> Round1(it.memory_percent),
     status |-> IF it.status # "" THEN it.status ELSE "unknown",
     username |-> IF it.username # "" THEN it.username ELSE "unknown",
     num_threads |-> it.num_threads,
     rss |-> IF it.memory_info.none THEN 0 ELSE it.memory_info.rss,
     vms |-> IF it.memory_info.none THEN 0 ELSE it.memory_info.vms,
     nice |-> it.nice,
     create_time |-> it.create_time,
     cmdline |-> it.cmdline.args]

\* The for loop over psutil.process_iter: the try inside it skips a process that
\* raised NoSuchProcess, AccessDenied or ZombieProcess; anything else leaves the
\* loop for the `except Exception` around it, which keeps the list so far.
PsutilLoop(items) ==
    LET leaving == {i \in DOMAIN items :
                       /\ PsutilItemRaises(items[i]) # "none"
                       /\ ~Catches({"NoSuchProcess", "AccessDenied", "ZombieProcess"},
                                   PsutilItemRaises(items[i]))}
        kept == SelectSeq(RowsDone(items, leaving),
                          LAMBDA it : PsutilItemRaises(it) = "none")
    IN  [i \in DOMAIN kept |-> PsutilRecord(kept[i])]

\* The records of the largest cpu_percent first, in their order in the list,
\* then those of the next one, and so on.
RECURSIVE ByCpuDesc(_, _)
ByCpuDesc(procs, keys) ==
    IF keys = {} THEN <<>>
    ELSE LET top == CHOOSE k \in keys : \A other \in keys : other <= k
         IN  SelectSeq(procs, LAMBDA r : r.cpu_percent = top)
                \o ByCpuDesc(procs, keys \ {top})

\* sorted(processes, key=lambda x: x['cpu_percent'], reverse=True): descending,
\* and stable (reverse=True keeps the order of equal keys).
SortedByCpuDesc(procs) ==
    ByCpuDesc(procs, {procs[i].cpu_percent : i \in DOMAIN procs})

\* The list _get_processes_psutil has appended when its loop is left.
PsutilAppended(env) ==
    IF env.outcome # "none" THEN <<>> ELSE PsutilLoop(env.rows)

\* _get_processes_psutil: env.outcome is what psutil.process_iter raised itself.
GetProcessesPsutil(env) ==
    [ret |-> SortedByCpuDesc(PsutilAppended(env)),
     raised |-> IF env.outcome = "none" \/ Catches({"Exception"}, env.outcome)
                THEN "none" ELSE env.outcome]

\* ------------------------------------------------------------------ get_process_status
\* get_process_status: the chosen backend's list, and the exception that reached
\* the caller ("none" when the call returned).
GetProcessStatus(psutil, sys, env) ==
    LET backend == SelectBackend(psutil, sys, env.proc_exists)
    IN  CASE backend = "psutil" -> GetProcessesPsutil(env)
          [] backend = "windows" -> GetProcessesWindows(env)
          [] backend = "proc" -> GetProcessesProc(env)
          [] backend = "ps" -> GetProcessesPs(env)

\* ------------------------------------------------------------------ system collector
\* Values of the snapshot dict.
Num(n) == [t |-> "num", v |-> n]
Str(x) == [t |-> "str", v |-> x]
NoneValue == [t |-> "none", v |-> 0]
TrueValue == [t |-> "bool", v |-> 1]
ListOf(xs) == [t |-> "list", v |-> xs]

EmptyDict == [k \in {} |-> NoneValue]
\* info.update(more)
Update(info, more) == more @@ info

\* platform.system(), of which self.system is the lower-case form.
PlatformSystem(sys) ==
    CASE sys = "linux" -> "Linux"
      [] sys = "windows" -> "Windows"
      [] sys = "darwin" -> "Darwin"
      [] OTHER -> "FreeBSD"

\* round(kb / (1024**2), 2) and round(bytes / (1024**3), 2), in hundredths.
KbToGb(kb) == RoundDiv(kb * 100, 1024 * 1024)
BytesToGb(bytes) == RoundDiv(bytes * 100, 1024 * 1024 * 1024)

\* Mutant: a key already assigned is kept, so the first matching line wins.
RECURSIVE MeminfoLoop_FirstWins(_, _)
MeminfoLoop_FirstWins(lines, info) ==
    IF lines = <<>> THEN [info |-> info, raised |-> "none"]
    ELSE LET line == Head(lines)
             key == IF line.key = "MemTotal:" THEN "memory_total_gb"
                    ELSE "memory_available_gb"
         IN  IF line.key \in {"MemTotal:", "MemAvailable:"}
             THEN IF Len(line.split) < 2 THEN [info |-> info, raised |-> "IndexError"]
                  ELSE IF IntRaises(line.split[2]) # "none"
                  THEN [info |-> info, raised |-> IntRaises(line.split[2])]
                  ELSE MeminfoLoop_FirstWins(Tail(lines),
                          IF key \in DOMAIN info THEN info
                          ELSE Update(info, key :> Num(KbToGb(IntOf(line.split[2])))))
             ELSE MeminfoLoop_FirstWins(Tail(lines), info)

\* The for loop over the lines of /proc/meminfo: every matching line assigns its
\* key; int(line.split()[1]) raises IndexError or ValueError, which ends the loop.
RECURSIVE MeminfoLoop(_, _)
MeminfoLoop(lines, info) ==
    IF lines = <<>> THEN [info |-> info, raised |-> "none"]
    ELSE LET line == Head(lines)
         IN  IF line.key \in {"MemTotal:", "MemAvailable:"}
             THEN IF Len(line.split) < 2 THEN [info |-> info, raised |-> "IndexError"]
                  ELSE IF IntRaises(line.split[2]) # "none"
                  THEN [info |-> info, raised |-> IntRaises(line.split[2])]
                  ELSE MeminfoLoop(Tail(lines),
                          Update(info,
                                 (IF line.key = "MemTotal:" THEN "memory_total_gb"
                                  ELSE "memory_available_gb")
                                    :> Num(KbToGb(IntOf(line.split[2])))))
             ELSE MeminfoLoop(Tail(lines), info)

\* The first try of _get_linux_system_info: `except OSError` and nothing else.
LinuxMeminfo(env) ==
    LET r == IF env.meminfo_open # "none"
             THEN [info |-> EmptyDict, raised |-> env.meminfo_open]
             ELSE MeminfoLoop(env.meminfo, EmptyDict)
    IN  [info |-> r.info,
         raised |-> IF Catches({"OSError"}, r.raised) THEN "none" ELSE r.raised]

\* The second try: f.read().split()[:3], each through float().
LinuxLoadavg(env, info) ==
    LET load_avg == SubSeq(env.loadavg, 1, Min(3, Len(env.loadavg)))
        bad == {i \in DOMAIN load_avg : FloatRaises(load_avg[i]) # "none"}
        raised == IF env.loadavg_open # "none" THEN env.loadavg_open
                  ELSE IF bad # {} THEN "ValueError"
                  ELSE "none"
    IN  [info |-> IF raised = "none"
                  THEN Update(info, "load_average" :>
                                 ListOf([i \in DOMAIN load_avg |-> FloatOf(load_avg[i])]))
                  ELSE info,
         raised |-> IF Catches({"OSError"}, raised) THEN "none" ELSE raised]

\* _get_linux_system_info: the dict, or the exception that left the method.
GetLinuxSystemInfo(env) ==
    LET m == LinuxMeminfo(env)
    IN  IF m.raised # "none" THEN [ret |-> EmptyDict, raised |-> m.raised]
        ELSE LET l == LinuxLoadavg(env, m.info)
             IN  IF l.raised # "none" THEN [ret |-> EmptyDict, raised |-> l.raised]
                 ELSE [ret |-> l.info, raised |-> "none"]

\* _get_macos_system_info: subprocess.run(['vm_stat']) without check=True, inside
\* `except subprocess.CalledProcessError`.  env.vm_stat.exc is what run raised,
\* env.vm_stat.returncode what the command returned.
GetMacosSystemInfo(env) ==
    IF env.vm_stat.exc # "none"
    THEN [ret |-> EmptyDict,
          raised |-> IF Catches({"CalledProcessError"}, env.vm_stat.exc)
                     THEN "none" ELSE env.vm_stat.exc]
    ELSE [ret |-> IF env.vm_stat.returncode = 0
                  THEN "vm_stat_available" :> TrueValue
                  ELSE EmptyDict,
          raised |-> "none"]

\* The for loop over wmic's output lines; a line is the text after
\* 'TotalPhysicalMemory=' (or is marked as another line).
RECURSIVE WmicLoop(_, _)
WmicLoop(lines, info) ==
    IF lines = <<>> THEN [info |-> info, raised |-> "none"]
    ELSE LET line == Head(lines)
         IN  IF line.has_total
             THEN IF IntRaises(line.value) # "none"
                  THEN [info |-> info, raised |-> IntRaises(line.value)]
                  ELSE WmicLoop(Tail(lines),
                          Update(info, "memory_total_gb" :>
                                          Num(BytesToGb(IntOf(line.value)))))
             ELSE WmicLoop(Tail(lines), info)

\* _get_windows_system_info: `except (subprocess.CalledProcessError, ValueError)`;
\* the dict keeps what was assigned before a caught exception.
GetWindowsSystemInfo(env) ==
    LET r == IF env.wmic.exc # "none"
             THEN [info |-> EmptyDict, raised |-> env.wmic.exc]
             ELSE IF env.wmic.returncode = 0
             THEN WmicLoop(env.wmic.lines, EmptyDict)
             ELSE [info |-> EmptyDict, raised |-> "none"]
    IN  IF r.raised = "none" \/ Catches({"CalledProcessError", "ValueError"}, r.raised)
        THEN [ret |-> r.info, raised |-> "none"]
        ELSE [ret |-> EmptyDict, raised |-> r.raised]

\* _get_system_info_fallback: env.cpu_count is os.cpu_count() (0 for None).
GetSystemInfoFallback(sys, env) ==
    LET info == ("system" :> Str(PlatformSystem(sys)))
                @@ ("platform" :> Str(env.platform))
                @@ ("architecture" :> Str(env.architecture))
                @@ ("cpu_cores_logical" :>
                       IF env.cpu_count # 0 THEN Num(env.cpu_count) ELSE Str("unknown"))
        more == CASE sys = "linux" -> GetLinuxSystemInfo(env)
                  [] sys = "darwin" -> GetMacosSystemInfo(env)
                  [] sys = "windows" -> GetWindowsSystemInfo(env)
                  [] OTHER -> [ret |-> EmptyDict, raised |-> "none"]
    IN  IF more.raised # "none" THEN [ret |-> EmptyDict, raised |-> more.raised]
        ELSE [ret |-> Update(info, more.ret), raised |-> "none"]

\* dict(status_counts): how many of the processes met have each status.
StatusCounts(statuses) ==
    [t |-> "dict",
     v |-> [st \in {statuses[i] : i \in DOMAIN statuses} |->
               Cardinality({i \in DOMAIN statuses : statuses[i] = st})]]

\* _get_system_info_psutil: every psutil call sits in one try with
\* `except Exception`, which returns {}.  env.psutil holds what psutil reports
\* (cpu_count 0 for None, sizes in bytes, percentages in tenths).
GetSystemInfoPsutil(sys, env) ==
    LET ps == env.psutil
    IN  IF ps.exc # "none"
        THEN [ret |-> EmptyDict,
              raised |-> IF Catches({"Exception"}, ps.exc) THEN "none" ELSE ps.exc]
        ELSE [ret |->
                ("cpu_cores_physical" :>
                    IF ps.cpu_count # 0 THEN Num(ps.cpu_count) ELSE NoneValue)
                @@ ("cpu_cores_logical" :>
                    IF ps.cpu_count_logical # 0 THEN Num(ps.cpu_count_logical)
                    ELSE NoneValue)
                @@ ("cpu_percent" :> Num(ps.cpu_percent))
                @@ ("memory_total_gb" :> Num(BytesToGb(ps.memory_total)))
                @@ ("memory_used_gb" :> Num(BytesToGb(ps.memory_used)))
                @@ ("memory_percent" :> Num(ps.memory_percent))
                @@ ("swap_total_gb" :> Num(BytesToGb(ps.swap_total)))
                @@ ("swap_used_gb" :> Num(BytesToGb(ps.swap_used)))
                @@ ("swap_percent" :> Num(ps.swap_percent))
                @@ ("process_count" :> Num(ps.process_count))
                @@ ("process_status_counts" :> StatusCounts(ps.statuses))
                @@ ("boot_time" :> Str(ps.boot_time))
                @@ ("system" :> Str(PlatformSystem(sys)))
                @@ ("platform" :> Str(env.platform))
                @@ ("architecture" :> Str(env.architecture)),
              raised |-> "none"]

\* get_detailed_system_status
GetDetailedSystemStatus(psutil, sys, env) ==
    IF psutil THEN GetSystemInfoPsutil(sys, env) ELSE GetSystemInfoFallback(sys, env)

\* ------------------------------------------------------------------ raw outputs
SeqsUpTo(S, n) == UNION {[1..k -> S] : k \in 0..n}

\* Rows of `ps axo pid,comm,pcpu,pmem,stat,user` after line.split(None, 5):
\* three well-formed rows (the third without a user column), a row with too few
\* columns, one with a non-numeric pid and one with a non-numeric %cpu.
PsRows ==
    { <<I(1), T("init"), F(0), F(1), T("S"), T("root")>>,
      <<I(2), T("bash"), F(125), F(20), T("R"), T("alice")>>,
      <<I(3), T("db"), F(50), F(150), T("S")>>,
      <<I(4), T("x"), T("S")>>,
      <<T("PID"), T("cmd"), F(0), F(0), T("S"), T("u")>>,
      <<I(6), T("y"), T("-"), F(0), T("S"), T("u")>> }

\* Rows of `tasklist /fo csv` after the split on '","': two well-formed rows, a
\* row with too few columns, one with a non-numeric pid, one with a non-numeric
\* memory column.
WindowsRows ==
    { <<T("System"), I(4), T("Services"), I(0), KB(144)>>,
      <<T("notepad.exe"), I(1234), T("Console"), I(1), KB(10240)>>,
      <<T("short"), I(7), T("Console")>>,
      <<T("bad"), T("N/A"), T("Console"), I(1), KB(100)>>,
      <<T("memless"), I(9), T("Console"), I(1), T("N/A")>> }

ProcEntry(dir, stat_exists, stat_open, stat_data, status_exists, has_vmrss, vmrss) ==
    [dir |-> dir, stat_exists |-> stat_exists, stat_open |-> stat_open,
     stat_data |-> stat_data, status_exists |-> status_exists,
     status_open |-> "none", has_vmrss |-> has_vmrss, vmrss |-> vmrss]

\* Entries of os.listdir('/proc') with what their stat and status files hold: two
\* readable processes, a non-numeric entry, a process that vanished before its
\* stat file was opened, a truncated stat file, a non-numeric VmRSS value.
ProcEntries ==
    { ProcEntry(I(1), TRUE, "none", <<I(1), P("init"), T("S")>>, TRUE, TRUE,
                <<I(2048), T("kB")>>),
      ProcEntry(I(123), TRUE, "none", <<I(123), P("myproc"), T("S")>>, FALSE, FALSE, <<>>),
      ProcEntry(T("cpuinfo"), FALSE, "none", <<>>, FALSE, FALSE, <<>>),
      ProcEntry(I(5), TRUE, "FileNotFoundError", <<>>, FALSE, FALSE, <<>>),
      ProcEntry(I(6), TRUE, "none", <<I(6)>>, FALSE, FALSE, <<>>),
      ProcEntry(I(8), TRUE, "none", <<I(8), P("odd"), T("R")>>, TRUE, TRUE,
                <<T("many"), T("kB")>>) }

PsutilItem(pid, name, cpu_info, cpu_call, memory_percent, cmdline) ==
    [pid |-> pid, name |-> name, cpu_info |-> cpu_info, cpu_call |-> cpu_call,
     memory_percent |-> memory_percent, status |-> "running", username |-> "",
     num_threads |-> 1, memory_info |-> [none |-> FALSE, rss |-> 4096, vms |-> 8192],
     nice |-> 0, create_time |-> 0, cmdline |-> cmdline]

\* Processes psutil.process_iter yields (percentages in hundredths): an idle one,
\* two with equal CPU, a busier one, one that exits when its CPU is sampled, one
\* whose command line was denied.
PsutilItems ==
    { PsutilItem(1, "init", 0, [exc |-> "none", v |-> 0], 10,
                 [none |-> FALSE, args |-> <<"init">>]),
      PsutilItem(2, "bash", 1250, [exc |-> "none", v |-> 0], 1500,
                 [none |-> FALSE, args |-> <<"bash", "-l">>]),
      PsutilItem(3, "", 1250, [exc |-> "none", v |-> 0], 20,
                 [none |-> FALSE, args |-> <<>>]),
      PsutilItem(4, "make", 0, [exc |-> "none", v |-> 2004], 30,
                 [none |-> FALSE, args |-> <<"make">>]),
      PsutilItem(5, "gone", 0, [exc |-> "NoSuchProcess", v |-> 0], 0,
                 [none |-> FALSE, args |-> <<>>]),
      PsutilItem(6, "kthreadd", 300, [exc |-> "none", v |-> 0], 0,
                 [none |-> TRUE, args |-> <<>>]) }

\* The large listing: ScenarioCount well-formed rows with distinct pids, every
\* seventh one CPU-intensive.
ScenarioRows(backend) ==
    [i \in 1..ScenarioCount |->
        CASE backend = "psutil" ->
               PsutilItem(i, "worker", IF i % 7 = 0 THEN 1250 ELSE 0,
                          [exc |-> "none", v |-> 0], 10, [none |-> FALSE, args |-> <<>>])
          [] backend = "windows" ->
               <<T("worker.exe"), I(i), T("Console"), I(1), KB(1024)>>
          [] backend = "proc" ->
               ProcEntry(I(i), TRUE, "none", <<I(i), P("worker"), T("S")>>, FALSE, FALSE, <<>>)
          [] backend = "ps" ->
               <<I(i), T("worker"), F(IF i % 7 = 0 THEN 125 ELSE 0), F(1), T("S"), T("u")>>]

Rows(backend) ==
    CASE backend = "psutil" -> PsutilItems
      [] backend = "windows" -> WindowsRows
      [] backend = "proc" -> ProcEntries
      [] backend = "ps" -> PsRows

\* What can go wrong before the first row: the command is missing, denied or
\* exits non-zero (subprocess.run, check=True); /proc cannot be listed;
\* process_iter fails.
Outcomes(backend) ==
    CASE backend = "psutil" -> {"OSError"}
      [] backend = "windows" -> {"FileNotFoundError", "PermissionError", "CalledProcessError"}
      [] backend = "proc" -> {"PermissionError"}
      [] backend = "ps" -> {"FileNotFoundError", "PermissionError", "CalledProcessError"}

\* What one call of get_process_status can find on the host, given whether /proc
\* exists: the raw output the backend chosen there reads.
ProcessEnvs(psutil, sys, proc_exists) ==
    LET backend == SelectBackend(psutil, sys, proc_exists)
    IN  {[proc_exists |-> proc_exists, outcome |-> "none", rows |-> r] :
            r \in SeqsUpTo(Rows(backend), MaxRows) \cup {ScenarioRows(backend)}}
        \cup {[proc_exists |-> proc_exists, outcome |-> o, rows |-> <<>>] :
                o \in Outcomes(backend)}

\* A line of /proc/meminfo: the key it starts with and its line.split().
MemLine(key, split) == [key |-> key, split |-> split]

MeminfoLines ==
    { MemLine("MemTotal:", <<T("MemTotal:"), I(16777216), T("kB")>>),
      MemLine("MemTotal:", <<T("MemTotal:"), I(8388608), T("kB")>>),
      MemLine("MemAvailable:", <<T("MemAvailable:"), I(4194304), T("kB")>>),
      MemLine("MemTotal:", <<T("MemTotal:"), T("n/a")>>),
      MemLine("MemAvailable:", <<T("MemAvailable:")>>),
      MemLine("SwapTotal:", <<T("SwapTotal:"), I(0), T("kB")>>) }

\* /proc/loadavg after split(): a usual one, one that is not numbers, an empty one.
LoadavgFiles ==
    { <<F(5), F(3), F(1), T("1/234"), I(999)>>, <<T("busy")>>, <<>> }

\* Lines of `wmic computersystem get TotalPhysicalMemory /value`.
WmicLines ==
    { [has_total |-> TRUE, value |-> I(16106127)],
      [has_total |-> TRUE, value |-> T("")],
      [has_total |-> FALSE, value |-> T("")] }

PsutilSystem(exc, cpu_count) ==
    [exc |-> exc, cpu_count |-> cpu_count, cpu_count_logical |-> 8, cpu_percent |-> 125,
     memory_total |-> 16106127, memory_used |-> 8053063, memory_percent |-> 500,
     swap_total |-> 0, swap_used |-> 0, swap_percent |-> 0, process_count |-> 3,
     statuses |-> <<"running", "sleeping", "sleeping">>,
     boot_time |-> "2024-01-01 00:00:00"]

\* A host on which nothing optional can be read; the sets below vary it.
BareHost ==
    [platform |-> "platform", architecture |-> "64bit", cpu_count |-> 8,
     meminfo_open |-> "FileNotFoundError", meminfo |-> <<>>,
     loadavg_open |-> "FileNotFoundError", loadavg |-> <<>>,
     vm_stat |-> [exc |-> "FileNotFoundError", returncode |-> 0],
     wmic |-> [exc |-> "FileNotFoundError", returncode |-> 0, lines |-> <<>>],
     psutil |-> PsutilSystem("AccessDenied", 0)]

\* What one call of get_detailed_system_status can find on the host.
SystemEnvs(psutil, sys) ==
    IF psutil
    THEN {[BareHost EXCEPT !.psutil = PsutilSystem(e, n)] :
             e \in {"none", "AccessDenied"}, n \in {0, 4}}
    ELSE LET hosts == {[BareHost EXCEPT !.cpu_count = n] : n \in {0, 8}}
         IN  CASE sys = "linux" ->
                    {[h EXCEPT !.meminfo_open = m.open, !.meminfo = m.lines,
                               !.loadavg_open = l.open, !.loadavg = l.tokens] :
                        h \in hosts,
                        m \in {[open |-> "none", lines |-> ls] :
                                   ls \in SeqsUpTo(MeminfoLines, MaxLines)}
                              \cup {[open |-> o, lines |-> <<>>] :
                                       o \in {"FileNotFoundError", "PermissionError"}},
                        l \in {[open |-> "none", tokens |-> f] : f \in LoadavgFiles}
                              \cup {[open |-> "PermissionError", tokens |-> <<>>]}}
                [] sys = "darwin" ->
                    {[h EXCEPT !.vm_stat = v] :
                        h \in hosts,
                        v \in {[exc |-> "none", returncode |-> 0],
                               [exc |-> "none", returncode |-> 1],
                               [exc |-> "FileNotFoundError", returncode |-> 0]}}
                [] sys = "windows" ->
                    {[h EXCEPT !.wmic = w] :
                        h \in hosts,
                        w \in {[exc |-> "none", returncode |-> 0, lines |-> ls] :
                                   ls \in SeqsUpTo(WmicLines, MaxLines)}
                              \cup {[exc |-> "none", returncode |-> 1, lines |-> <<>>],
                                    [exc |-> "FileNotFoundError", returncode |-> 0,
                                     lines |-> <<>>]}}
                [] OTHER -> hosts

Systems == {"windows", "linux", "darwin", "freebsd"}

\* ------------------------------------------------------------------ pager
\* Mutant: the slice takes its end index too, so a page runs into the next one.
Slice_EndInclusive(seq, a, b) == SubSeq(seq, Min(a, Len(seq)) + 1, Min(b + 1, Len(seq)))

\* processes[a:b]
Slice(seq, a, b) == SubSeq(seq, Min(a, Len(seq)) + 1, Min(b, Len(seq)))

\* Mutant: the two footer counts are taken over the visible slice.
Render_CountsOverPage(procs, size, page) ==
    LET total_processes == Len(procs)
        start_idx == page * size
        end_idx == start_idx + size
        current_processes == Slice(procs, start_idx, end_idx)
    IN  [current_processes |-> current_processes,
         page |-> page + 1,
         pages |-> (total_processes + size - 1) \div size,
         first_shown |-> start_idx + 1,
         last_shown |-> Min(end_idx, total_processes),
         total |-> total_processes,
         cpu_intensive |->
             Cardinality({i \in DOMAIN current_processes :
                             current_processes[i].cpu_percent > 100}),
         memory_intensive |->
             Cardinality({i \in DOMAIN current_processes :
                             Get(current_processes[i], "memory_percent", 0) > 100})]

\* One rendering of the loop body of display_process_status: the visible slice,
\* the "Page X/Y" header, the "Showing" range and the two footer counts.
Render(procs, size, page) ==
    LET total_processes == Len(procs)
        start_idx == page * size
        end_idx == start_idx + size
    IN  [current_processes |-> Slice(procs, start_idx, end_idx),
         page |-> page + 1,
         pages |-> (total_processes + size - 1) \div size,
         first_shown |-> start_idx + 1,
         last_shown |-> Min(end_idx, total_processes),
         total |-> total_processes,
         cpu_intensive |->
             Cardinality({i \in DOMAIN procs : procs[i].cpu_percent > 100}),
         memory_intensive |->
             Cardinality({i \in DOMAIN procs : Get(procs[i], "memory_percent", 0) > 100})]

\* What nothing printed yet looks like.
NoScreen ==
    [current_processes |-> <<>>, page |-> 0, pages |-> 0, first_shown |-> 0,
     last_shown |-> 0, total |-> 0, cpu_intensive |-> 0, memory_intensive |-> 0]

\* input(...).lower()
Keys == {"n", "N", "p", "f", "l", "L", "q", "x", ""}
Lower(k) == CASE k = "N" -> "n" [] k = "L" -> "l" [] OTHER -> k

\* Mutant: `next` compares with <= and steps past the last page.
NextPage_NextPastEnd(c, page, size, total_processes) ==
    LET end_idx == page * size + size
    IN  IF c = "n" /\ end_idx <= total_processes THEN page + 1
        ELSE IF c = "p" /\ page > 0 THEN page - 1
        ELSE IF c = "f" THEN 0
        ELSE IF c = "l" THEN (total_processes - 1) \div size
        ELSE page

\* Mutant: `previous` stops one page early.
NextPage_PreviousStopsEarly(c, page, size, total_processes) ==
    LET end_idx == page * size + size
    IN  IF c = "n" /\ end_idx < total_processes THEN page + 1
        ELSE IF c = "p" /\ page > 1 THEN page - 1
        ELSE IF c = "f" THEN 0
        ELSE IF c = "l" THEN (total_processes - 1) \div size
        ELSE page

\* Mutant: `last` divides the count itself, which is one page too far when the
\* count is a multiple of the page size.
NextPage_LastOffByOne(c, page, size, total_processes) ==
    LET end_idx == page * size + size
    IN  IF c = "n" /\ end_idx < total_processes THEN page + 1
        ELSE IF c = "p" /\ page > 0 THEN page - 1
        ELSE IF c = "f" THEN 0
        ELSE IF c = "l" THEN total_processes \div size
        ELSE page

\* The if/elif chain on the input: the page index after it (quit leaves it alone).
NextPage(c, page, size, total_processes) ==
    LET end_idx == page * size + size
    IN  IF c = "n" /\ end_idx < total_processes THEN page + 1
        ELSE IF c = "p" /\ page > 0 THEN page - 1
        ELSE IF c = "f" THEN 0
        ELSE IF c = "l" THEN (total_processes - 1) \div size
        ELSE page

\* ------------------------------------------------------------------ state
VARIABLES
    PSUTIL_AVAILABLE,   \* the module's flag, set at import
    system,             \* self.system
    pc,                 \* "menu"; "paging" inside display_process_status's loop;
                        \* "returned" when a collector has handed its result back
    processes,          \* display_process_status: the list collected on entry
    page_size,          \* its page_size parameter
    current_page,       \* its page index
    choice,             \* the input the loop handled last ("-" before the first)
    screen,             \* what the loop printed last
    nextsAfterFirst,    \* history: the inputs so far end with `f` and this many `n`
                        \* (counted up to MaxRun); -1 when they do not
    call                \* the last call of a collector: its inputs and its result

vars == <<PSUTIL_AVAILABLE, system, pc, processes, page_size, current_page, choice,
          screen, nextsAfterFirst, call>>

pagerVars == <<pc, processes, page_size, current_page, choice, screen, nextsAfterFirst>>

NoCall == [op |-> "none"]

\* After main() has built the SystemMonitor and shown the menu.
Init ==
    /\ PSUTIL_AVAILABLE \in BOOLEAN
    /\ system \in Systems
    /\ pc = "menu"
    /\ processes = <<>>
    /\ page_size = DefaultPageSize
    /\ current_page = 0
    /\ choice = "-"
    /\ screen = NoScreen
    /\ nextsAfterFirst = -1
    /\ call = NoCall

\* The record of one get_process_status call.  `appended` is the list in the order
\* the backend met the processes (before _get_processes_psutil sorts it).
ProcessCall(env) ==
    LET backend == SelectBackend(PSUTIL_AVAILABLE, system, env.proc_exists)
        r == GetProcessStatus(PSUTIL_AVAILABLE, system, env)
    IN  [op |-> "ps", env |-> env, backend |-> backend,
         appended |-> IF backend = "psutil" THEN PsutilAppended(env) ELSE r.ret,
         ret |-> r.ret, raised |-> r.raised]

\* ListProcesses: a caller asks for the process list.
CallGetProcessStatus ==
    /\ pc = "menu"
    /\ \E proc_exists \in BOOLEAN :
         \E env \in ProcessEnvs(PSUTIL_AVAILABLE, system, proc_exists) :
            call' = ProcessCall(env)
    /\ pc' = "returned"
    /\ UNCHANGED <<PSUTIL_AVAILABLE, system, processes, page_size, current_page, choice,
                   screen, nextsAfterFirst>>

\* GetSystemSnapshot: a caller asks for the system snapshot.
CallGetDetailedSystemStatus ==
    /\ pc = "menu"
    /\ \E env \in SystemEnvs(PSUTIL_AVAILABLE, system) :
         LET r == GetDetailedSystemStatus(PSUTIL_AVAILABLE, system, env)
         IN  call' = [op |-> "ds", env |-> env, ret |-> r.ret, raised |-> r.raised]
    /\ pc' = "returned"
    /\ UNCHANGED <<PSUTIL_AVAILABLE, system, processes, page_size, current_page, choice,
                   screen, nextsAfterFirst>>

\* The caller is done with the result (main() catches what was raised) and the
\* menu is shown again.
BackToMenu ==
    /\ pc = "returned"
    /\ pc' = "menu"
    /\ call' = NoCall
    /\ UNCHANGED <<PSUTIL_AVAILABLE, system, processes, page_size, current_page, choice,
                   screen, nextsAfterFirst>>

PageSizes == (1..MaxPageSize) \cup {DefaultPageSize}

\* display_process_status up to its first input(): collect, return at once on an
\* empty list (or when the collection raised), else print the first page.
DisplayProcessStatus ==
    /\ pc = "menu"
    /\ \E proc_exists \in BOOLEAN, size \in PageSizes :
       \E env \in ProcessEnvs(PSUTIL_AVAILABLE, system, proc_exists) :
         LET r == GetProcessStatus(PSUTIL_AVAILABLE, system, env)
         IN  IF r.raised # "none" \/ r.ret = <<>>
             THEN UNCHANGED pagerVars
             ELSE /\ pc' = "paging"
                  /\ processes' = r.ret
                  /\ page_size' = size
                  /\ current_page' = 0
                  /\ choice' = "-"
                  /\ screen' = Render(r.ret, size, 0)
                  /\ nextsAfterFirst' = -1
    /\ call' = NoCall
    /\ UNCHANGED <<PSUTIL_AVAILABLE, system>>

\* One turn of the loop: read the input, move, and print the page again; `q`
\* leaves the loop and the method, dropping its locals.
Navigate ==
    /\ pc = "paging"
    /\ \E k \in Keys :
         LET c == Lower(k)
             page == NextPage(c, current_page, page_size, Len(processes))
         IN  IF c = "q"
             THEN /\ pc' = "menu"
                  /\ processes' = <<>>
                  /\ page_size' = DefaultPageSize
                  /\ current_page' = 0
                  /\ choice' = "-"
                  /\ screen' = NoScreen
                  /\ nextsAfterFirst' = -1
             ELSE /\ current_page' = page
                  /\ choice' = c
                  /\ screen' = Render(processes, page_size, page)
                  /\ nextsAfterFirst' =
                        IF c = "f" THEN 0
                        ELSE IF c = "n" /\ nextsAfterFirst >= 0
                        THEN Min(nextsAfterFirst + 1, MaxRun)
                        ELSE -1
                  /\ UNCHANGED <<pc, processes, page_size>>
    /\ UNCHANGED <<PSUTIL_AVAILABLE, system, call>>

Next == CallGetProcessStatus \/ CallGetDetailedSystemStatus \/ BackToMenu \/ DisplayProcessStatus \/ Navigate

Spec == Init /\ [][Next]_vars

\* ================================================================== properties
Paging == pc = "paging"

\* ceiling(a / b) for a >= 1, b >= 1: the least y with y * b >= a.
Ceiling(a, b) == CHOOSE y \in 1..a : y * b >= a /\ (y - 1) * b < a

\* C1: in a paging session the page index stays within
\* 0 .. floor((count - 1) / pageSize), whatever was typed.
C1_PageIndexInRange ==
    Paging => /\ Len(processes) >= 1
              /\ page_size >= 1
              /\ 0 <= current_page
              /\ current_page <= (Len(processes) - 1) \div page_size

\* C1 witness: `next` was typed more often after a `first` than there are pages
\* to advance over, and the index sits on the last page of several.
C1_Witness ==
    /\ Paging
    /\ choice = "n"
    /\ current_page > 0
    /\ current_page = (Len(processes) - 1) \div page_size
    /\ nextsAfterFirst > current_page

\* What `next` and `previous` must do with the index, and the 120/50 scenario.
StepClamps ==
    /\ choice' = "n" =>
          current_page' = IF current_page * page_size + page_size >= Len(processes)
                          THEN current_page
                          ELSE current_page + 1
    /\ choice' = "p" =>
          current_page' = IF current_page = 0 THEN 0 ELSE current_page - 1
    /\ (Len(processes') = 120 /\ page_size' = 50 /\ nextsAfterFirst' = 5) =>
          current_page' = 2

\* C2: `next` is a no-op when the page's end index reaches the count and else
\* adds one; `previous` is a no-op at 0 and else subtracts one; with 120 records
\* and page size 50, `first` and five `next` end on index 2.
C2_StepsClamp == [][(Paging /\ Paging') => StepClamps]_vars

\* C2 witness: the 120/50 session after `first` and five `next`.
C2_Witness ==
    /\ Paging
    /\ Len(processes) = 120
    /\ page_size = 50
    /\ nextsAfterFirst = 5
    /\ current_page = 2

\* What `first` and `last` must do, with Y the page count of the header.
FirstLast ==
    /\ choice' = "f" => current_page' = 0
    /\ choice' = "l" =>
          /\ current_page' = Ceiling(Len(processes), page_size) - 1
          /\ screen'.pages = Ceiling(Len(processes), page_size)
          /\ screen'.page = screen'.pages
    /\ (choice = "l" /\ choice' = "n") => current_page' = current_page

\* C3: `first` sets the index to 0; `last` sets it to Y - 1 with
\* Y = ceiling(total / pageSize), the header then reads page Y of Y, and a `next`
\* right after `last` changes nothing.
C3_FirstAndLast == [][(Paging /\ Paging') => FirstLast]_vars

\* C3 witness: `last` was typed and the header reads Y of Y with Y > 1, the count
\* being a multiple of the page size.
C3_Witness ==
    /\ Paging
    /\ choice = "l"
    /\ current_page > 0
    /\ Len(processes) % page_size = 0
    /\ screen.page = screen.pages

CpuIntensive(procs) == Len(SelectSeq(procs, LAMBDA p : p.cpu_percent > 100))
MemoryIntensive(procs) == Len(SelectSeq(procs, LAMBDA p : p.memory_percent > 100))

\* C4: the two footer counts are those of the whole stored list on every
\* rendering, so navigation never changes them.
C4_SummaryCountsSessionWide ==
    [][/\ Paging' => /\ screen'.cpu_intensive = CpuIntensive(processes')
                     /\ screen'.memory_intensive = MemoryIntensive(processes')
       /\ (Paging /\ Paging') => /\ screen'.cpu_intensive = screen.cpu_intensive
                                 /\ screen'.memory_intensive = screen.memory_intensive
      ]_vars

\* C4 witness: after a navigation, a page that shows fewer CPU-intensive and
\* fewer memory-intensive records than the footer counts.
C4_Witness ==
    /\ Paging
    /\ choice \in {"n", "l"}
    /\ current_page > 0
    /\ screen.cpu_intensive > CpuIntensive(screen.current_processes)
    /\ screen.memory_intensive > MemoryIntensive(screen.current_processes)

ProcessCallReturned == call.op = "ps"

\* C5: for every backend the returned list is sorted by cpuPercent descending,
\* records of equal cpuPercent in the order the backend met them.
C5_SortedByCpuStable ==
    ProcessCallReturned =>
        /\ \A i, j \in DOMAIN call.ret :
              i < j => call.ret[i].cpu_percent >= call.ret[j].cpu_percent
        /\ \A i \in DOMAIN call.ret :
              SelectSeq(call.ret, LAMBDA p : p.cpu_percent = call.ret[i].cpu_percent)
                = SelectSeq(call.appended,
                            LAMBDA p : p.cpu_percent = call.ret[i].cpu_percent)

\* A raw row every field of which can be read and converted.
ValidRow(backend, row) ==
    CASE backend = "psutil" ->
            /\ (row.cpu_info = 0 => row.cpu_call.exc = "none")
            /\ ~row.cmdline.none
      [] backend = "windows" ->
            /\ Len(row) >= 5
            /\ row[2].kind = "int"
            /\ row[5].kind = "kb"
      [] backend = "proc" ->
            /\ row.dir.kind = "int"
            /\ row.stat_exists
            /\ ProcEntryRaises(row) = "none"
      [] backend = "ps" ->
            /\ Len(row) >= 5
            /\ row[1].kind = "int"
            /\ row[3].kind \in {"int", "float"}
            /\ row[4].kind \in {"int", "float"}

\* The pid a raw row is about.
RowPid(backend, row) ==
    CASE backend = "psutil" -> row.pid
      [] backend = "windows" -> row[2].n
      [] backend = "proc" -> row.dir.n
      [] backend = "ps" -> row[1].n

\* C6: a record that fails is dropped alone: every valid record of the raw
\* output, before or after it, is in the returned list.
C6_BadRecordDroppedAlone ==
    ProcessCallReturned =>
        /\ call.raised = "none"
        /\ \A i \in DOMAIN call.env.rows :
              ValidRow(call.backend, call.env.rows[i]) =>
                 \E j \in DOMAIN call.ret :
                    call.ret[j].pid = RowPid(call.backend, call.env.rows[i])

\* C7: when tasklist or ps cannot be run (missing, denied, non-zero exit) the
\* collector returns an empty list and raises nothing.
C7_CommandFailureIsSoft ==
    (/\ ProcessCallReturned
     /\ call.backend \in {"windows", "ps"}
     /\ call.env.outcome # "none") =>
        /\ call.ret = <<>>
        /\ call.raised = "none"

\* C7 witness: the ps command was not found and the call has returned.
C7_Witness ==
    /\ pc = "returned"
    /\ ProcessCallReturned
    /\ call.backend = "ps"
    /\ call.env.outcome = "FileNotFoundError"
    /\ call.ret = <<>>

SystemCallReturned == call.op = "ds"

\* The optional fields of the fallback paths whose source failed on this host.
FailedOptionalFields(sys, env) ==
    CASE sys = "linux" ->
            {"memory_total_gb" : i \in
                {i \in DOMAIN env.meminfo :
                    /\ env.meminfo[i].key = "MemTotal:"
                    /\ (Len(env.meminfo[i].split) < 2
                        \/ env.meminfo[i].split[2].kind # "int")}}
            \cup {"load_average" : i \in
                {i \in DOMAIN env.loadavg :
                    i <= 3 /\ env.loadavg[i].kind \notin {"int", "float"}}}
      [] sys = "darwin" ->
            IF env.vm_stat.exc # "none" THEN {"vm_stat_available"} ELSE {}
      [] sys = "windows" ->
            IF env.wmic.exc # "none" THEN {"memory_total_gb"} ELSE {}
      [] OTHER -> {}

\* C8: in the fallback paths a parse or subprocess failure of an optional field
\* is swallowed: the snapshot is returned without that field and nothing is raised.
C8_FallbackFailuresSwallowed ==
    (SystemCallReturned /\ ~PSUTIL_AVAILABLE) =>
        /\ call.raised = "none"
        /\ FailedOptionalFields(system, call.env) \cap DOMAIN call.ret = {}

\* C9: psutil available -> psutil backend on any OS; else Windows -> tasklist;
\* Linux with /proc -> /proc; Linux without /proc, macOS, other Unix -> ps.
C9_BackendDecisionOrder ==
    ProcessCallReturned =>
        /\ PSUTIL_AVAILABLE => call.backend = "psutil"
        /\ (~PSUTIL_AVAILABLE /\ system = "windows") => call.backend = "windows"
        /\ (~PSUTIL_AVAILABLE /\ system = "linux" /\ call.env.proc_exists) =>
              call.backend = "proc"
        /\ (~PSUTIL_AVAILABLE /\ system = "linux" /\ ~call.env.proc_exists) =>
              call.backend = "ps"
        /\ (~PSUTIL_AVAILABLE /\ system \in {"darwin", "freebsd"}) =>
              call.backend = "ps"
        /\ call.backend \in {"psutil", "windows", "proc", "ps"}

\* C9 witness: psutil is available on Windows and the psutil backend served the
\* call.
C9_Witness ==
    /\ ProcessCallReturned
    /\ PSUTIL_AVAILABLE
    /\ system = "windows"
    /\ call.backend = "psutil"
    /\ call.ret # <<>>

\* The fields the active backend could not supply on this host.
Unsupplied(psutil, env) ==
    IF psutil
    THEN IF env.psutil.cpu_count = 0 THEN {"cpu_cores_physical"} ELSE {}
    ELSE IF env.cpu_count = 0 THEN {"cpu_cores_logical"} ELSE {}

\* C10: a field the active backend cannot supply is absent from the returned
\* snapshot, never present with a placeholder.
C10_UnknownFieldsAbsent ==
    (SystemCallReturned /\ call.raised = "none") =>
        /\ Unsupplied(PSUTIL_AVAILABLE, call.env) \cap DOMAIN call.ret = {}
        /\ \A k \in DOMAIN call.ret :
              /\ call.ret[k].t # "none"
              /\ call.ret[k].t = "str" => call.ret[k].v # "unknown"

\* C11: every record of every backend has a pid and a non-empty name, and holds
\* the numeric fields cpu_percent, memory_percent, rss and vms (0 when the
\* backend cannot supply them) instead of leaving them out.
C11_NumericFieldsZeroFilled ==
    ProcessCallReturned =>
        \A i \in DOMAIN call.ret :
            /\ {"pid", "name", "cpu_percent", "memory_percent", "rss", "vms"}
                  \subseteq DOMAIN call.ret[i]
            /\ call.ret[i].name # ""

\* The snapshot key a /proc/meminfo key is stored under.
SnapshotKey(key) ==
    IF key = "MemTotal:" THEN "memory_total_gb" ELSE "memory_available_gb"

\* The numbers of the lines of the file that start with the key.
Matching(lines, key) == {i \in DOMAIN lines : lines[i].key = key}

\* The Linux fallback returned a snapshot after reading /proc/meminfo.
MeminfoRead ==
    /\ SystemCallReturned
    /\ ~PSUTIL_AVAILABLE
    /\ system = "linux"
    /\ call.raised = "none"
    /\ call.env.meminfo_open = "none"

\* The gigabytes (in hundredths) the line's kilobytes make.
LineGb(line) == RoundDiv(line.split[2].n * 100, 1048576)

\* C12 as stated: for MemTotal and MemAvailable the snapshot holds the value of
\* the first line of /proc/meminfo that matches the key.
C12_FirstMatchingLineWins ==
    MeminfoRead =>
        \A key \in {"MemTotal:", "MemAvailable:"} :
            LET m == Matching(call.env.meminfo, key)
            IN  m # {} =>
                  LET first == CHOOSE i \in m : \A j \in m : i <= j
                  IN  /\ SnapshotKey(key) \in DOMAIN call.ret
                      /\ call.ret[SnapshotKey(key)].v = LineGb(call.env.meminfo[first])

\* C12 amended: the snapshot holds the value of the last line that matches the
\* key; every matching line assigns the key again.
C12_LastMatchingLineWins ==
    MeminfoRead =>
        \A key \in {"MemTotal:", "MemAvailable:"} :
            LET m == Matching(call.env.meminfo, key)
            IN  IF m # {}
                THEN LET last == CHOOSE i \in m : \A j \in m : j <= i
                     IN  /\ SnapshotKey(key) \in DOMAIN call.ret
                         /\ call.ret[SnapshotKey(key)].v = LineGb(call.env.meminfo[last])
                ELSE SnapshotKey(key) \notin DOMAIN call.ret

\* C12 witness: two MemTotal lines with different values were read, and the
\* snapshot holds the second one's.
C12_Witness ==
    /\ MeminfoRead
    /\ Len(call.env.meminfo) = 2
    /\ call.env.meminfo[1].key = "MemTotal:"
    /\ call.env.meminfo[2].key = "MemTotal:"
    /\ LineGb(call.env.meminfo[1]) # LineGb(call.env.meminfo[2])
    /\ call.ret["memory_total_gb"].v = LineGb(call.env.meminfo[2])

\* The slice the loop shows on a page of the current session.
PageSlice(page) == Slice(processes, page * page_size, page * page_size + page_size)

\* The pages 0 .. Y-1 cut the stored list into consecutive pieces: every page is
\* non-empty and holds at most page_size records, record k of page p is record
\* p * page_size + k of the list, and every record of the list has its place on
\* the page floor((i - 1) / page_size), so that the slices in order are the list.
PagesPartition ==
    LET Y == Ceiling(Len(processes), page_size)
    IN  /\ \A p \in 0..(Y - 1) :
              LET shown == PageSlice(p)
              IN  /\ shown # <<>>
                  /\ Len(shown) <= page_size
                  /\ \A k \in DOMAIN shown :
                        /\ p * page_size + k <= Len(processes)
                        /\ shown[k] = processes[p * page_size + k]
        /\ \A i \in DOMAIN processes :
              LET p == (i - 1) \div page_size
                  k == ((i - 1) % page_size) + 1
              IN  /\ p \in 0..(Y - 1)
                  /\ k \in DOMAIN PageSlice(p)

\* C13: in a paging session the stored list never changes, the page on screen
\* is a non-empty slice of at most page_size records, and the slices of the
\* pages 0 .. Y-1 in order make up exactly the stored list.  The partition is
\* a property of the list and the page size alone; it is established when the
\* session starts and both stay as they are on every later turn of the loop.
C13_PagesPartitionStoredList ==
    [][/\ (~Paging /\ Paging') => PagesPartition'
       /\ (Paging /\ Paging') =>
            /\ processes' = processes
            /\ page_size' = page_size
       /\ Paging' =>
            /\ current_page' \in 0..(Ceiling(Len(processes'), page_size') - 1)
            /\ screen'.current_processes = PageSlice(current_page)'
            /\ screen'.current_processes # <<>>
            /\ Len(screen'.current_processes) <= page_size'
      ]_vars

\* C13 witness: after a navigation the screen shows a last page that is not
\* full, in a session of several pages.
C13_Witness ==
    /\ Paging
    /\ choice \in {"n", "l"}
    /\ current_page > 0
    /\ page_size > 1
    /\ screen.current_processes # <<>>
    /\ Len(screen.current_processes) < page_size
====
